---- MODULE Spec2Model ----
(***************************************************************************)
(* A model of unframe, a YAML-driven test runner: main() builds a TestSet   *)
(* from the *.yaml documents of a directory (src/src/tests.py), each        *)
(* document becoming a Test whose constructor compiles the parse/validate   *)
(* blocks, expands the parameter axes and walks the bindings, and then      *)
(* calls TestSet.run().                                                     *)
(*                                                                         *)
(* Python values are modelled as follows.                                   *)
(*   - a dict is a sequence of <<key, value>> pairs with distinct keys, in  *)
(*     insertion order (Python dicts keep insertion order);                 *)
(*   - None is the empty sequence and any other optional value x is <<x>>;  *)
(*   - an attribute that has not been assigned yet is Unset, an assigned    *)
(*     one is Attr(value);                                                  *)
(*   - a call that may raise gives [exc, val]: exc.type = "" when it        *)
(*     returned val, the exception's type otherwise.                        *)
(* Scope: every document is a well-formed mapping that holds the required   *)
(* keys `name` and `command`; verbose logging is off (Logs.debug prints     *)
(* nothing).                                                                *)
(***************************************************************************)
EXTENDS Integers, Sequences, FiniteSets, TLC

\* ------------------------------------------------------------- bounds
\* Most files in the directory.
MaxFiles == 2
\* Longest list of candidate values of one parameter.
MaxVals == 2
\* Longest `snippets` list.
MaxSnips == 3
\* Longest `command` list.
MaxCmd == 2

\* --------------------------------------------------------- Python values
None == <<>>
Some(x) == <<x>>
Unset == <<>>
Attr(x) == <<x>>

NoExc == [type |-> "", at |-> ""]
Raise(type, at) == [exc |-> [type |-> type, at |-> at], val |-> <<>>]
Return(v) == [exc |-> NoExc, val |-> v]

SeqsUpTo(S, n) == UNION {[1..m -> S] : m \in 0..n}

Range(s) == {s[j] : j \in 1..Len(s)}

IsInjective(s) == \A a, b \in 1..Len(s) : s[a] = s[b] => a = b

\* dict.keys(), in insertion order
Keys(d) == [j \in 1..Len(d) |-> d[j][1]]

\* dict.values(), in insertion order
Vals(d) == [j \in 1..Len(d) |-> d[j][2]]

\* key in d
Has(d, key) == \E j \in 1..Len(d) : d[j][1] = key

\* d[key], for a key of d
Lookup(d, key) == d[CHOOSE j \in 1..Len(d) : d[j][1] = key][2]

\* d[key] = v: a present key keeps its place, a new one goes last
DictSet(d, key, v) ==
    IF Has(d, key)
    THEN [j \in 1..Len(d) |-> IF d[j][1] = key THEN <<key, v>> ELSE d[j]]
    ELSE Append(d, <<key, v>>)

\* d.update(e)
RECURSIVE DictUpdate(_, _)
DictUpdate(d, e) ==
    IF e = <<>> THEN d
    ELSE DictUpdate(DictSet(d, e[1][1], e[1][2]), Tail(e))

\* dict(zip(keys, x))
DictZip(keys, x) ==
    LET n == IF Len(keys) < Len(x) THEN Len(keys) ELSE Len(x)
        RECURSIVE Fill(_, _)
        Fill(d, j) == IF j > n THEN d ELSE Fill(DictSet(d, keys[j], x[j]), j + 1)
    IN Fill(<<>>, 1)

\* spec.get(key, default) of an optional key
Get(opt, default) == IF opt = None THEN default ELSE opt[1]

RECURSIVE Join(_, _)
Join(parts, sep) ==
    IF parts = <<>> THEN ""
    ELSE IF Len(parts) = 1 THEN parts[1]
    ELSE parts[1] \o sep \o Join(Tail(parts), sep)

\* Values as the template engine sees them: a str, a dict (of such values) or
\* an Undefined object (the undefined obj and name it was created with).
PyStr(s) == [t |-> "str", s |-> s, d |-> <<>>]
PyDict(d) == [t |-> "dict", s |-> "", d |-> d]
\* jinja2's `missing` sentinel, the default obj of an Undefined
Missing == [t |-> "missing", s |-> "", d |-> <<>>]
Undef(obj, name) == [t |-> "undef", obj |-> obj, name |-> name]

\* repr() of a str without quotes or escapes in it
Repr(s) == "'" \o s \o "'"

\* str() of a value that is no Undefined: a str is itself, a dict is
\* {'k': 'v', ...} in insertion order, `missing` prints as missing
RECURSIVE Str(_)
Str(v) ==
    CASE v.t = "str" -> v.s
      [] v.t = "missing" -> "missing"
      [] v.t = "dict" ->
            "{" \o Join([j \in 1..Len(v.d) |->
                           Repr(v.d[j][1]) \o ": " \o
                           (IF v.d[j][2].t = "str" THEN Repr(v.d[j][2].s)
                            ELSE Str(v.d[j][2]))], ", ") \o "}"

\* ------------------------------------------------------ convert_snippets
convert_snippets_adjacent_only(raw_snip) ==
    IF raw_snip = None THEN Raise("TypeError", "convert_snippets")
    ELSE LET RECURSIVE Loop(_, _)
             Loop(result, j) ==
                 IF j > Len(raw_snip[1]) THEN Return(<< <<"snippet", PyDict(result)>> >>)
                 ELSE LET name == raw_snip[1][j].name
                          content == raw_snip[1][j].content
                      IN IF j > 1 /\ raw_snip[1][j - 1].name = name
                         THEN Raise("ValueError", "convert_snippets")
                         ELSE Loop(DictSet(result, name, PyStr(content)), j + 1)
         IN Loop(<<>>, 1)

\* convert_snippets(raw_snip): raw_snip is the optional `snippets` list of
\* [name, content] items; iterating None is a TypeError.
convert_snippets(raw_snip) ==
    IF raw_snip = None THEN Raise("TypeError", "convert_snippets")
    ELSE LET RECURSIVE Loop(_, _)
             Loop(result, j) ==
                 IF j > Len(raw_snip[1]) THEN Return(<< <<"snippet", PyDict(result)>> >>)
                 ELSE LET name == raw_snip[1][j].name
                          content == raw_snip[1][j].content
                      IN IF Has(result, name)
                         THEN Raise("ValueError", "convert_snippets")
                         ELSE Loop(DictSet(result, name, PyStr(content)), j + 1)
         IN Loop(<<>>, 1)

\* ------------------------------------------------- templates, rendering
\* A template string is literal text or one {{ dotted.name }} reference.
Lit(text) == [kind |-> "lit", text |-> text, path |-> <<>>]
Ref(path) == [kind |-> "ref", text |-> "", path |-> path]

\* The template's own text
Source(tpl) ==
    IF tpl.kind = "lit" THEN tpl.text
    ELSE "{{ " \o Join(tpl.path, ".") \o " }}"

\* KeepUndefined.__str__
KeepUndefined_str(u) ==
    LET full == IF u.obj # None /\ u.obj[1].t # "undef"
                THEN Str(u.obj[1]) \o "." \o u.name
                ELSE IF u.name # "" THEN u.name ELSE "undefined"
    IN "{{ " \o full \o " }}"

\* Environment.getattr(obj, attribute) under undefined=KeepUndefined: an
\* attribute of an Undefined raises UndefinedError (Undefined.__getattr__);
\* a dict gives its item (the names used here are no dict methods); anything
\* else gives a new Undefined of that obj.
getattr(obj, attribute) ==
    CASE obj.t = "undef" -> Raise("UndefinedError", "render_strings")
      [] obj.t = "dict" /\ Has(obj.d, attribute) -> Return(Lookup(obj.d, attribute))
      [] OTHER -> Return(Undef(Some(obj), attribute))

\* The value of a dotted reference: the first name is resolved in the
\* context (an absent one is Undefined(name=...), its obj the `missing`
\* sentinel), every further name is a getattr.
Resolve(path, context) ==
    LET first == IF Has(context, path[1]) THEN Lookup(context, path[1])
                 ELSE Undef(Some(Missing), path[1])
        RECURSIVE Walk(_, _)
        Walk(r, j) ==
            IF r.exc # NoExc \/ j > Len(path) THEN r
            ELSE Walk(getattr(r.val, path[j]), j + 1)
    IN Walk(Return(first), 2)

\* env.from_string(s).render(**context)
Render(tpl, context) ==
    IF tpl.kind = "lit" THEN Return(tpl.text)
    ELSE LET r == Resolve(tpl.path, context)
         IN IF r.exc # NoExc THEN r
            ELSE IF r.val.t = "undef" THEN Return(KeepUndefined_str(r.val))
            ELSE Return(Str(r.val))

\* render_strings(strings, context): context is optional
render_strings(strings, context) ==
    IF context = None THEN Return([j \in 1..Len(strings) |-> Source(strings[j])])
    ELSE LET RECURSIVE Loop(_, _)
             Loop(result, j) ==
                 IF j > Len(strings) THEN Return(result)
                 ELSE LET r == Render(strings[j], context[1])
                      IN IF r.exc # NoExc THEN r
                         ELSE Loop(Append(result, r.val), j + 1)
         IN Loop(<<>>, 1)

\* -------------------------------------------------------------- load_fn
\* What exec() of a parse/validate block does: "callable" defines a callable
\* of the required name, "not_callable" runs but defines none,
\* "syntax_error" does not compile.
Blocks == {"callable", "not_callable", "syntax_error"}

\* Test.load_fn(fn_name), block being the optional spec[fn_name]. The raise
\* of line 143 formats its message with `func_name`, a name that is not
\* defined, so what is raised there is a NameError.
load_fn(block) ==
    IF block = None THEN Return(None)
    ELSE CASE block[1] = "syntax_error" -> Raise("SyntaxError", "load_fn")
           [] block[1] = "not_callable" -> Raise("NameError", "load_fn")
           [] OTHER -> Return(Some("fn"))

\* --------------------------------------------------- param_permutations
\* itertools.product(*lists): the tuples in the order of nested for-loops,
\* the rightmost list advancing fastest.
RECURSIVE product(_)
product(lists) ==
    IF lists = <<>> THEN << <<>> >>
    ELSE LET rest == product(Tail(lists))
             RECURSIVE Outer(_)
             Outer(j) ==
                 IF j > Len(Head(lists)) THEN <<>>
                 ELSE [m \in 1..Len(rest) |-> <<Head(lists)[j]>> \o rest[m]]
                      \o Outer(j + 1)
         IN Outer(1)

\* The same, the leftmost list advancing fastest.
RECURSIVE product_first_fastest(_)
product_first_fastest(lists) ==
    IF lists = <<>> THEN << <<>> >>
    ELSE LET n == Len(lists)
             rest == product_first_fastest(SubSeq(lists, 1, n - 1))
             RECURSIVE Outer(_)
             Outer(j) ==
                 IF j > Len(lists[n]) THEN <<>>
                 ELSE [m \in 1..Len(rest) |-> Append(rest[m], lists[n][j])]
                      \o Outer(j + 1)
         IN Outer(1)

\* A sequence without its repeated elements (the first occurrence stays).
RECURSIVE Dedup(_)
Dedup(s) ==
    IF s = <<>> THEN <<>>
    ELSE LET front == Dedup(SubSeq(s, 1, Len(s) - 1))
         IN IF s[Len(s)] \in Range(front) THEN front ELSE Append(front, s[Len(s)])

param_permutations_dedup(params) ==
    LET p == Get(params, <<>>)
    IN Dedup([j \in 1..Len(product(Vals(p))) |-> DictZip(Keys(p), product(Vals(p))[j])])

param_permutations_first_fastest(params) ==
    LET p == Get(params, <<>>)
        values == product_first_fastest(Vals(p))
    IN [j \in 1..Len(values) |-> DictZip(Keys(p), values[j])]

\* Test.param_permutations(), params being the optional spec["params"]
param_permutations(params) ==
    LET p == Get(params, <<>>)
        keys == Keys(p)
        values == product(Vals(p))
    IN [j \in 1..Len(values) |-> DictZip(keys, values[j])]

\* ------------------------------------------------------- generate_tasks
env_vars_base_wins(env, params) == DictUpdate(params, env)

\* The env_vars of one binding: dict(self.env or {}) then .update(params)
env_vars_of(env, params) ==
    LET env_vars == IF env = <<>> THEN <<>> ELSE env
    IN DictUpdate(env_vars, params)

\* ------------------------------------------------------------- Test.run
\* Test.run() of a constructed test: the first loop iterates self.tasks
\* (None is not iterable: TypeError) and prints each task; the second loop,
\* entered when there is a binding, updates `env_vars`, a name that run()
\* never binds (NameError). val is what was printed.
Test_run(t) ==
    IF t.tasks[1] = None THEN Raise("TypeError", "Test.run")
    ELSE IF t.params[1] # <<>> THEN Raise("NameError", "Test.run")
    ELSE Return(t.tasks[1][1])

\* TestSet.run(): for each test in order, log.info and test.run(); the
\* first exception ends the loop and propagates. ran lists the tests whose
\* run() was invoked, out the lines logged.
TestSet_run(ts) ==
    LET RECURSIVE Loop(_, _, _)
        Loop(j, ran, out) ==
            IF j > Len(ts) THEN [exc |-> NoExc, ran |-> ran, out |-> out]
            ELSE LET line == [level |-> "INFO", msg |-> "Running test",
                              test |-> ts[j].name]
                     r == Test_run(ts[j])
                 IN IF r.exc # NoExc
                    THEN [exc |-> r.exc, ran |-> Append(ran, ts[j].file),
                          out |-> Append(out, line)]
                    ELSE Loop(j + 1, Append(ran, ts[j].file), Append(out, line))
    IN Loop(1, <<>>, <<>>)

\* ------------------------------------------------------------- inputs
ParamNames == {"size", "mode"}
Values == {"a", "b"}
Tags == {"gpu", "cpu"}

ValueLists == SeqsUpTo(Values, MaxVals)

\* The `params` mappings: some of the names, in any declaration order, each
\* with a list of candidate values.
ParamMaps ==
    UNION {{[j \in 1..Len(ks) |-> <<ks[j], vs[j]>>] : vs \in [1..Len(ks) -> ValueLists]} :
           ks \in {s \in SeqsUpTo(ParamNames, Cardinality(ParamNames)) : IsInjective(s)}}

\* The `env` mappings: HOME and size (a parameter name too), either or both.
Envs ==
    {SelectSeq(<< <<"HOME", "base">>, <<"size", "base">> >>, LAMBDA kv : kv[1] \in S) :
     S \in SUBSET {"HOME", "size"}}

SnippetItems ==
    {[name |-> "script", content |-> "c1"], [name |-> "script", content |-> "c2"],
     [name |-> "setup", content |-> "c1"]}

SnippetLists == SeqsUpTo(SnippetItems, MaxSnips)

Templates ==
    {Lit("srun"), Ref(<<"snippet", "script">>), Ref(<<"snippet", "setup">>),
     Ref(<<"extra_args", "partition">>), Ref(<<"size">>)}

Commands == SeqsUpTo(Templates, MaxCmd) \ {<<>>}

BaseDoc ==
    [name |-> "osu_bw", env |-> Some(<< <<"HOME", "base">> >>), tags |-> Some({"gpu"}),
     snippets |-> Some(<<[name |-> "script", content |-> "c1"]>>),
     params |-> Some(<< <<"size", <<"a", "b">> >> >>),
     command |-> <<Lit("srun"), Ref(<<"snippet", "script">>)>>,
     parse |-> None, validate |-> None]

\* Documents that vary the parameter axes and the base environment.
ParamDocs ==
    {[BaseDoc EXCEPT !.params = p, !.env = e] :
     p \in {None} \cup {Some(m) : m \in ParamMaps},
     e \in {None} \cup {Some(m) : m \in Envs}}

\* Documents that vary the snippets and the command templates.
RenderDocs ==
    {[BaseDoc EXCEPT !.snippets = sn, !.command = c] :
     sn \in {None} \cup {Some(l) : l \in SnippetLists}, c \in Commands}

\* The documents the multi-file directories are made of.
Fixtures ==
    {BaseDoc,
     [BaseDoc EXCEPT !.name = "stream", !.tags = Some({"cpu"}),
                     !.parse = Some("callable"), !.validate = Some("callable")],
     [BaseDoc EXCEPT !.name = "hello", !.tags = None, !.params = None],
     [BaseDoc EXCEPT !.name = "badparse", !.parse = Some("not_callable")],
     [BaseDoc EXCEPT !.name = "badvalidate", !.tags = Some({"cpu"}),
                     !.validate = Some("syntax_error")],
     [BaseDoc EXCEPT !.name = "gemm", !.tags = Some({"gpu", "cpu"}),
                     !.params = Some(<< <<"size", <<"a">> >>, <<"mode", <<"a", "b">> >> >>)]}

\* (directory, --tag): the documents of the *.yaml files in sorted file-name
\* order, and the optional tag.
Inputs ==
    (SeqsUpTo(Fixtures, MaxFiles) \X ({None} \cup {Some(t) : t \in Tags}))
    \cup ({<<d>> : d \in ParamDocs \cup RenderDocs} \X {None})

\* -------------------------------------------------------------- state
VARIABLES
    dir,        \* the documents of the directory's *.yaml files, sorted
    tag,        \* args.tag
    pc,         \* where main() is
    i,          \* files load_tests has taken from the glob
    test,       \* the Test being constructed (or last constructed)
    k,          \* bindings generate_tasks has walked
    env_vars,   \* generate_tasks' local env_vars
    context,    \* the value convert_snippets returned last
    command,    \* generate_tasks' local command
    tests,      \* load_tests' local tests, then self.tests
    exc,        \* the exception that ended main(), if any
    exitStatus, \* the process exit status, once it has exited
    log,        \* the lines printed
    ran         \* the files whose Test.run() was invoked

vars == <<dir, tag, pc, i, test, k, env_vars, context, command, tests, exc,
          exitStatus, log, ran>>

NoTest ==
    [file |-> 0, name |-> "", env |-> <<>>, tags |-> {}, snippets |-> None,
     parse |-> Unset, validate |-> Unset, params |-> Unset, tasks |-> Unset]

Init ==
    /\ \E in \in Inputs : dir = in[1] /\ tag = in[2]
    /\ pc = "load"
    /\ i = 0
    /\ test = NoTest
    /\ k = 0
    /\ env_vars = None
    /\ context = None
    /\ command = None
    /\ tests = <<>>
    /\ exc = NoExc
    /\ exitStatus = -1
    /\ log = <<>>
    /\ ran = <<>>

\* An uncaught exception ends the process (traceback, exit status 1).
Crash(e) ==
    /\ pc' = "crash"
    /\ exc' = e
    /\ exitStatus' = 1

\* ------------------------------------------------------------ actions
\* load_tests takes the next file and Test.__init__ reads the document and
\* its metadata (tests.py 85-87, 115-124).
Test_init ==
    /\ pc = "load"
    /\ i < Len(dir)
    /\ i' = i + 1
    /\ test' = [file |-> i + 1,
               name |-> dir[i + 1].name,
               env |-> Get(dir[i + 1].env, <<>>),
               tags |-> Get(dir[i + 1].tags, {}),
               snippets |-> dir[i + 1].snippets,
               parse |-> Unset, validate |-> Unset, params |-> Unset,
               tasks |-> Unset]
    /\ pc' = "parse"
    /\ UNCHANGED <<dir, tag, k, env_vars, context, command, tests, exc,
                   exitStatus, log, ran>>

\* self.parse = self.load_fn("parse") (tests.py 126)
Test_load_parse ==
    /\ pc = "parse"
    /\ LET r == load_fn(dir[test.file].parse)
       IN IF r.exc # NoExc
          THEN Crash(r.exc) /\ UNCHANGED test
          ELSE /\ test' = [test EXCEPT !.parse = Attr(r.val)]
               /\ pc' = "validate"
               /\ UNCHANGED <<exc, exitStatus>>
    /\ UNCHANGED <<dir, tag, i, k, env_vars, context, command, tests, log, ran>>

\* self.validate = self.load_fn("validate") (tests.py 127)
Test_load_validate ==
    /\ pc = "validate"
    /\ LET r == load_fn(dir[test.file].validate)
       IN IF r.exc # NoExc
          THEN Crash(r.exc) /\ UNCHANGED test
          ELSE /\ test' = [test EXCEPT !.validate = Attr(r.val)]
               /\ pc' = "params"
               /\ UNCHANGED <<exc, exitStatus>>
    /\ UNCHANGED <<dir, tag, i, k, env_vars, context, command, tests, log, ran>>

\* self.params = self.param_permutations(), and generate_tasks is entered:
\* self.tasks = [] (tests.py 129, 162)
Test_param_permutations ==
    /\ pc = "params"
    /\ test' = [test EXCEPT !.params = Attr(param_permutations(dir[test.file].params)),
                          !.tasks = Attr(Some(<<>>))]
    /\ pc' = "tasks"
    /\ UNCHANGED <<dir, tag, i, k, env_vars, context, command, tests, exc,
                   exitStatus, log, ran>>

\* One turn of generate_tasks' loop, for the next binding (tests.py 164-169)
generate_tasks_step ==
    /\ pc = "tasks"
    /\ k < Len(test.params[1])
    /\ k' = k + 1
    /\ env_vars' = Some(env_vars_of(test.env, test.params[1][k + 1]))
    /\ LET c == convert_snippets(test.snippets)
           r == render_strings(dir[test.file].command, Some(c.val))
       IN IF c.exc # NoExc
          THEN Crash(c.exc) /\ UNCHANGED <<context, command>>
          ELSE /\ context' = Some(c.val)
               /\ IF r.exc # NoExc
                  THEN Crash(r.exc) /\ UNCHANGED command
                  ELSE /\ command' = Some(r.val)
                       /\ UNCHANGED <<pc, exc, exitStatus>>
    /\ UNCHANGED <<dir, tag, i, test, tests, log, ran>>

\* The loop is over: generate_tasks ends without a return statement, so
\* self.tasks = self.generate_tasks() binds None (tests.py 130); the
\* function's locals are gone.
generate_tasks_return ==
    /\ pc = "tasks"
    /\ k = Len(test.params[1])
    /\ test' = [test EXCEPT !.tasks = Attr(None)]
    /\ k' = 0
    /\ env_vars' = None
    /\ context' = None
    /\ command' = None
    /\ pc' = "filter"
    /\ UNCHANGED <<dir, tag, i, tests, exc, exitStatus, log, ran>>

\* The tag filter of load_tests and tests.append(test) (tests.py 89-93)
load_tests_append ==
    /\ pc = "filter"
    /\ tests' = IF tag # None /\ tag[1] \notin test.tags THEN tests
                ELSE Append(tests, test)
    /\ pc' = "load"
    /\ UNCHANGED <<dir, tag, i, test, k, env_vars, context, command, exc,
                   exitStatus, log, ran>>

load_tests_finish_no_fatal ==
    /\ pc = "load"
    /\ i = Len(dir)
    /\ pc' = "run"
    /\ UNCHANGED <<dir, tag, i, test, k, env_vars, context, command, tests,
                   exc, exitStatus, log, ran>>

\* The glob is exhausted: with no test kept, log.fatal prints and exits with
\* status 1 (logs.py 24-26); otherwise self.tests is bound and the
\* constructor returns to main (tests.py 95-100)
load_tests_finish ==
    /\ pc = "load"
    /\ i = Len(dir)
    /\ IF Len(tests) = 0
       THEN /\ log' = Append(log, [level |-> "FATAL", msg |-> "No tests loaded",
                                   test |-> ""])
            /\ exitStatus' = 1
            /\ pc' = "exit"
       ELSE /\ pc' = "run"
            /\ UNCHANGED <<log, exitStatus>>
    /\ UNCHANGED <<dir, tag, i, test, k, env_vars, context, command, tests,
                   exc, ran>>

\* tests.run() in main and, when it returns, the two log.info calls
\* (main.py 13-16)
main_run ==
    /\ pc = "run"
    /\ LET r == TestSet_run(tests)
       IN /\ ran' = r.ran
          /\ IF r.exc # NoExc
             THEN Crash(r.exc) /\ log' = log \o r.out
             ELSE /\ log' = log \o r.out \o
                            <<[level |-> "INFO", msg |-> "args", test |-> ""],
                              [level |-> "INFO", msg |-> "tests", test |-> ""]>>
                  /\ pc' = "done"
                  /\ exitStatus' = 0
                  /\ UNCHANGED exc
    /\ UNCHANGED <<dir, tag, i, test, k, env_vars, context, command, tests>>

Next ==
    \/ Test_init
    \/ Test_load_parse
    \/ Test_load_validate
    \/ Test_param_permutations
    \/ generate_tasks_step
    \/ generate_tasks_return
    \/ load_tests_append
    \/ load_tests_finish
    \/ main_run

Spec == Init /\ [][Next]_vars

\* main() has ended, one way or another.
Terminated == pc \in {"done", "exit", "crash"}

\* -------------------------------------------------------------- claims
\* The `params` mapping of the document under construction, its bindings
\* (self.params) and its base `env`.
DeclaredParams == Get(dir[test.file].params, <<>>)
Bindings == test.params[1]
BaseEnv == Get(dir[test.file].env, <<>>)

\* n1 * n2 * ... * nk of the axes from the a-th on (1 when there is none)
RECURSIVE AxisProduct(_, _)
AxisProduct(p, a) ==
    IF a > Len(p) THEN 1 ELSE Len(p[a][2]) * AxisProduct(p, a + 1)

\* C1: param_permutations returns exactly n1*n2*...*nk bindings, each
\* assigning every parameter name, in declaration order, one of its
\* candidate values; every combination of candidates is among them, none
\* is dropped as a duplicate, and zero parameters give one empty binding.
C1_FullProduct ==
    test.params # Unset =>
        /\ Len(Bindings) = AxisProduct(DeclaredParams, 1)
        /\ \A j \in 1..Len(Bindings) :
              /\ Keys(Bindings[j]) = Keys(DeclaredParams)
              /\ \A a \in 1..Len(DeclaredParams) :
                    Bindings[j][a][2] \in Range(DeclaredParams[a][2])
        /\ \A f \in [1..Len(DeclaredParams) -> Values] :
              (\A a \in 1..Len(DeclaredParams) : f[a] \in Range(DeclaredParams[a][2]))
              => \E j \in 1..Len(Bindings) : Vals(Bindings[j]) = f
        /\ DeclaredParams = <<>> => Bindings = << <<>> >>

\* Two axes of two candidates each, one of them listing the same value
\* twice: four bindings, equal in pairs.
C1_Witness ==
    /\ test.params # Unset
    /\ DeclaredParams = << <<"size", <<"a", "a">> >>, <<"mode", <<"b", "a">> >> >>
    /\ Len(Bindings) = 4
    /\ Bindings[1] = Bindings[3]

\* C2: the bindings come in lexicographic order over the declared parameter
\* order: the j-th binding gives the a-th declared parameter the candidate
\* at position ((j-1) div (n_{a+1}*...*n_k)) mod n_a of its value list, so
\* the first-declared parameter varies slowest and the last-declared
\* fastest.
C2_LexicographicOrder ==
    test.params # Unset =>
        /\ Len(Bindings) = AxisProduct(DeclaredParams, 1)
        /\ \A j \in 1..Len(Bindings) : \A a \in 1..Len(DeclaredParams) :
              Bindings[j][a] =
                  <<DeclaredParams[a][1],
                    DeclaredParams[a][2][(((j - 1) \div AxisProduct(DeclaredParams, a + 1))
                                          % Len(DeclaredParams[a][2])) + 1]>>

\* params {size: [a, b], mode: [b, a]} gives (a,b), (a,a), (b,b), (b,a).
C2_Witness ==
    /\ test.params # Unset
    /\ DeclaredParams = << <<"size", <<"a", "b">> >>, <<"mode", <<"b", "a">> >> >>
    /\ Bindings = << << <<"size", "a">>, <<"mode", "b">> >>,
                     << <<"size", "a">>, <<"mode", "a">> >>,
                     << <<"size", "b">>, <<"mode", "b">> >>,
                     << <<"size", "b">>, <<"mode", "a">> >> >>

\* A reference a.b that the context does not resolve: `a` is absent, or `a`
\* is a dict without `b`.
Unresolved(tpl, ctxt) ==
    /\ tpl.kind = "ref"
    /\ Len(tpl.path) = 2
    /\ \/ ~Has(ctxt, tpl.path[1])
       \/ /\ Has(ctxt, tpl.path[1])
          /\ Lookup(ctxt, tpl.path[1]).t = "dict"
          /\ ~Has(Lookup(ctxt, tpl.path[1]).d, tpl.path[2])

\* C3: render_strings never raises on an unresolved reference and gives
\* back its text: once the command of a binding has gone through
\* render_strings, no UndefinedError was raised and every element that is
\* an unresolved "{{ a.b }}" was rendered as exactly that text.
C3_UnresolvedRoundTrip ==
    (k >= 1 /\ context # None) =>
        /\ exc.type # "UndefinedError"
        /\ command # None =>
              \A j \in 1..Len(dir[test.file].command) :
                  Unresolved(dir[test.file].command[j], context[1])
                  => command[1][j] = Source(dir[test.file].command[j])

SnippetNames(l) == [j \in 1..Len(l) |-> l[j].name]

\* C4: convert_snippets raises its duplicate-name error (the ValueError of
\* tests.py 33) for every snippet list in which a name occurs twice,
\* wherever the two occurrences are, and returns no mapping then; for
\* pairwise distinct names it returns {"snippet": {name: content}} with
\* every entry of the list and nothing else.
C4_DuplicateSnippets ==
    (k >= 1 /\ test.snippets # None) =>
        IF ~IsInjective(SnippetNames(test.snippets[1]))
        THEN /\ exc = [type |-> "ValueError", at |-> "convert_snippets"]
             /\ context = None
             /\ command = None
        ELSE /\ exc.at # "convert_snippets"
             /\ context # None
             /\ Keys(context[1]) = <<"snippet">>
             /\ context[1][1][2].t = "dict"
             /\ Len(context[1][1][2].d) = Len(test.snippets[1])
             /\ \A j \in 1..Len(test.snippets[1]) :
                   /\ Has(context[1][1][2].d, test.snippets[1][j].name)
                   /\ Lookup(context[1][1][2].d, test.snippets[1][j].name)
                        = PyStr(test.snippets[1][j].content)

\* The same name first and last, another one between them.
C4_Witness ==
    /\ k >= 1
    /\ test.snippets # None
    /\ SnippetNames(test.snippets[1]) = <<"script", "setup", "script">>
    /\ exc.type = "ValueError"
    /\ context = None

\* No document of the directory carries the requested tag (or there is no
\* document at all).
NoneSelected ==
    \/ Len(dir) = 0
    \/ /\ tag # None
       /\ \A j \in 1..Len(dir) : tag[1] \notin Get(dir[j].tags, {})

\* load_tests has gone through every file without an exception.
LoadEnded ==
    \/ pc \in {"run", "done", "exit"}
    \/ pc = "crash" /\ exc.at = "Test.run"

\* C5: when the directory holds no spec file, or no loaded spec file carries
\* the requested tag, load_tests, once it has gone through the files, ends
\* in log.fatal and exit status 1; main never gets to TestSet.run, no
\* test's run() is invoked at any time, and the process ends with status 1.
C5_FatalBeforeRun ==
    /\ (NoneSelected /\ LoadEnded) =>
          /\ pc = "exit"
          /\ exitStatus = 1
          /\ log # <<>>
          /\ log[Len(log)].level = "FATAL"
    /\ (NoneSelected \/ pc = "exit") =>
          /\ pc \notin {"run", "done"}
          /\ ran = <<>>
          /\ \A j \in 1..Len(log) : log[j].msg # "Running test"
          /\ Terminated => exitStatus = 1

\* Two documents were loaded and filtered out, and the process exited.
C5_Witness ==
    /\ pc = "exit"
    /\ exitStatus = 1
    /\ Len(dir) = 2
    /\ i = 2
    /\ tag = Some("cpu")
    /\ tests = <<>>

\* C6: a constructed Test holds a task list with one task per binding, and
\* run() executes them all and ends with the test's aggregate, not with an
\* exception.
C6_TasksPerBinding ==
    /\ \A j \in 1..Len(tests) :
          /\ tests[j].tasks[1] # None
          /\ Len(tests[j].tasks[1][1]) = Len(tests[j].params[1])
    /\ exc.at # "Test.run"

\* C7: nothing propagates out of TestSet.run, which invokes run() on every
\* retained test, in file order.
C7_RunsEveryTest ==
    (pc = "done" \/ (pc = "crash" /\ exc.at = "Test.run")) =>
        /\ pc = "done"
        /\ ran = [j \in 1..Len(tests) |-> tests[j].file]

\* C8: after the run, every task of a test without a validate block has a
\* verdict, PASS or FAIL, in the output.
C8_VerdictPerTask ==
    (pc = "done" \/ (pc = "crash" /\ exc.at = "Test.run")) =>
        \A j \in 1..Len(tests) :
            (tests[j].validate = Attr(None) /\ Len(tests[j].params[1]) >= 1)
            => \E l \in 1..Len(log) :
                  /\ log[l].test = tests[j].name
                  /\ log[l].msg \in {"[PASS]", "[FAIL]"}

\* C9: the env_vars built for a binding is the document's base env overlaid
\* with the binding: the binding's keys carry the binding's values, the
\* other keys of env their base values, there is no other key, and the
\* test's base env is still the document's.
C9_EnvOverlay ==
    env_vars # None =>
        LET b == Bindings[k]
        IN /\ \A key \in Range(Keys(b)) :
                 Has(env_vars[1], key) /\ Lookup(env_vars[1], key) = Lookup(b, key)
           /\ \A key \in Range(Keys(BaseEnv)) \ Range(Keys(b)) :
                 Has(env_vars[1], key) /\ Lookup(env_vars[1], key) = Lookup(BaseEnv, key)
           /\ Range(Keys(env_vars[1])) = Range(Keys(BaseEnv)) \cup Range(Keys(b))
           /\ IsInjective(Keys(env_vars[1]))
           /\ test.env = BaseEnv

\* The second binding of a document whose env sets size too: size is the
\* binding's, not the base value and not the first binding's; HOME is kept.
C9_Witness ==
    /\ env_vars # None
    /\ k = 2
    /\ BaseEnv = << <<"HOME", "base">>, <<"size", "base">> >>
    /\ Lookup(Bindings[1], "size") = "a"
    /\ Lookup(Bindings[2], "size") = "b"
    /\ env_vars[1] = << <<"HOME", "base">>, <<"size", "b">> >>

BadBlock(doc) ==
    \/ doc.parse # None /\ doc.parse[1] # "callable"
    \/ doc.validate # None /\ doc.validate[1] # "callable"

\* C10: a parse or validate block that defines no callable of the required
\* name fails for its own test case only: main does not end in load_fn's
\* exception, and every document without such a block that passes the tag
\* filter is retained.
C10_BadBlockIsolated ==
    (Terminated /\ \E j \in 1..Len(dir) : BadBlock(dir[j])) =>
        /\ exc.at # "load_fn"
        /\ \A j \in 1..Len(dir) :
              (~BadBlock(dir[j]) /\ (tag = None \/ tag[1] \in Get(dir[j].tags, {})))
              => \E m \in 1..Len(tests) : tests[m].file = j

====
